---- MODULE Spec2Model ----
(***************************************************************************)
(* NFT auction contract (CosmWasm): contract.rs, state.rs, msg.rs.         *)
(*                                                                         *)
(* The four persisted namespaces of state.rs are the variables config,     *)
(* nft_address, minters and listings.  height is env.block.height, which   *)
(* the host advances between invocations.  last is the latest invocation   *)
(* of execute as the host saw it: Ok(Response) with its messages, or Err,  *)
(* and the royalty schedule the registry answered when the handler asked.  *)
(* An invocation that returns Err is reverted by the host, so it leaves    *)
(* the four namespaces as they were.                                       *)
(***************************************************************************)
EXTENDS Naturals, Sequences, FiniteSets

VARIABLES config, nft_address, minters, listings, height, last

vars == <<config, nft_address, minters, listings, height, last>>
store == <<config, nft_address, minters, listings>>

(***************************************************************************)
(* Bounds of the explored environment.                                     *)
(***************************************************************************)
\* largest amount of a bid, a minimum bid or an attached coin
MaxAmount == 2
\* number of successful mints explored (config.listing_count stays below it)
MaxMints == 1
\* blocks explored after each multiple of the auction duration
MaxTick == 2
\* longest royalty schedule the registry answers with or a mint carries
MaxRoyalties == 2
\* Decimal is fixed point with 10^18 atomics per unit; the model scales the
\* unit down to this many atomics
DecimalFractional == 4

DEFAULT_EXPIRE_BLOCKS == 50000

(***************************************************************************)
(* Addresses and inputs.                                                   *)
(***************************************************************************)
\* env.contract.address
Self == "auction"
Owner == "owner"
Users == {"owner", "alice"}
TokenContracts == {"cw20"}
\* info.sender of a message a user sends
Senders == Users
\* the accounts that place listings
Sellers == {"alice"}
\* the accounts the owner puts on and takes off the minter whitelist
MinterCandidates == {"alice"}
NftAddrs == {"nft"}
RoyaltyAddrs == {"artist", "gallery"}
Denoms == {"uusd"}
TokenIds == {"GF.1"}
Amounts == 1..MaxAmount
NoAddr == "none"
NoError == ""

NativeToken(denom) == [kind |-> "native", id |-> denom]
Token(contract_addr) == [kind |-> "token", id |-> contract_addr]
\* the AssetInfo values a message can name
AssetInfos == {NativeToken(d) : d \in Denoms} \cup {Token(c) : c \in TokenContracts}
Assets == [info : AssetInfos, amount : Amounts]
Coins == [denom : Denoms, amount : Amounts]
\* info.funds
Funds == {<<>>} \cup {<<c>> : c \in Coins}

\* Decimal values, in atomics: a half and one
Rates == {DecimalFractional \div 2, DecimalFractional}
Royalties == [address : RoyaltyAddrs, royalty_rate : Rates]
SeqsUpTo(S, n) == UNION {[1..k -> S] : k \in 0..n}
Schedules == SeqsUpTo(Royalties, MaxRoyalties)

(***************************************************************************)
(* Conversions.                                                            *)
(***************************************************************************)
Digits == <<"0", "1", "2", "3", "4", "5", "6", "7", "8", "9">>

RECURSIVE to_string(_)
to_string(n) ==
    IF n < 10 THEN Digits[n + 1]
    ELSE to_string(n \div 10) \o Digits[(n % 10) + 1]

\* the listing key of a placement
listing_key(listing_count) == to_string(listing_count + 1)

\* a bug mint_token_id could have: the id is derived from the counter as it
\* was before the increment
mint_token_id_stale(listing_count) ==
    "GF" \o "." \o to_string(listing_count - 1)

\* ["GF", n].join(".")
mint_token_id(listing_count) == "GF" \o "." \o to_string(listing_count)

\* the keys a bid, a withdrawal or a query can name: the keys a placement
\* can produce
ListingIds == {to_string(n) : n \in 1..(MaxMints + 1)}

(***************************************************************************)
(* Storage buckets.                                                        *)
(***************************************************************************)
Save(bucket, key, value) ==
    [k \in DOMAIN bucket \cup {key} |-> IF k = key THEN value ELSE bucket[k]]

Remove(bucket, key) == [k \in DOMAIN bucket \ {key} |-> bucket[k]]

(***************************************************************************)
(* Asset.                                                                  *)
(***************************************************************************)
\* Native: the attached funds hold exactly amount of denom.  Token: no check.
assert_sent_native_token_balance(asset, funds) ==
    IF asset.info.kind = "native"
    THEN \E i \in 1..Len(funds) :
            funds[i].denom = asset.info.id /\ funds[i].amount = asset.amount
    ELSE TRUE

\* Native: a bank transfer to recipient.  Token: a transfer instruction to the
\* token contract.
into_msg(asset, recipient) ==
    IF asset.info.kind = "native"
    THEN [type |-> "bank_send", to |-> recipient,
          info |-> asset.info, amount |-> asset.amount]
    ELSE [type |-> "cw20_transfer", to |-> recipient,
          info |-> asset.info, amount |-> asset.amount]

\* Uint128 * Decimal: floor(amount * rate)
MulDecimal(amount, rate) == (amount * rate) \div DecimalFractional

(***************************************************************************)
(* Messages to the NFT registry.                                           *)
(***************************************************************************)
ApproveMsg(contract_addr, spender, token_id, expires) ==
    [type |-> "approve", contract_addr |-> contract_addr, spender |-> spender,
     token_id |-> token_id, expires |-> expires]

TransferNftMsg(contract_addr, recipient, token_id) ==
    [type |-> "transfer_nft", contract_addr |-> contract_addr,
     recipient |-> recipient, token_id |-> token_id]

MintNftMsg(contract_addr, token_id, royalties) ==
    [type |-> "mint", contract_addr |-> contract_addr, token_id |-> token_id,
     royalties |-> royalties]

(***************************************************************************)
(* Results of an invocation.                                               *)
(***************************************************************************)
Result(op, via, key, ok, err, msgs, royalties) ==
    [op |-> op, via |-> via, key |-> key, ok |-> ok, err |-> err,
     msgs |-> msgs, royalties |-> royalties]

\* Ok(Response) with its messages: the writes of the handler are committed
Ok(op, via, key, msgs) ==
    last' = Result(op, via, key, TRUE, "", msgs, <<>>)

\* Err: the host reverts the invocation
Err(op, e) ==
    /\ last' = Result(op, "", "", FALSE, e, <<>>, <<>>)
    /\ UNCHANGED store

\* a bug Revert could have: the writes the handler made before it failed are
\* kept
RevertKept(op, e, written) ==
    /\ last' = Result(op, "", "", FALSE, e, <<>>, <<>>)
    /\ config' = written[1]
    /\ nft_address' = written[2]
    /\ minters' = written[3]
    /\ listings' = written[4]

\* Err after the handler wrote to the storage: written is the store as the
\* handler left it, which the host discards with the invocation
Revert(op, e, written) ==
    /\ last' = Result(op, "", "", FALSE, e, <<>>, <<>>)
    /\ UNCHANGED store

Init ==
    /\ config = [listing_count |-> 0, owner |-> Owner,
                 max_aution_duration_blocks |-> DEFAULT_EXPIRE_BLOCKS]
    /\ nft_address = NoAddr
    /\ minters = {}
    /\ listings = [k \in {} |-> 0]
    /\ height = 1
    /\ last = Result("instantiate", "", "", TRUE, "", <<>>, <<>>)

(***************************************************************************)
(* Admin operations.                                                       *)
(***************************************************************************)
\* a bug Unauthorized could have: the minters pass the check of the owner
UnauthorizedUnlessMinter(info_sender) ==
    info_sender # config.owner /\ info_sender \notin minters

\* the sender is not the owner of the Config
Unauthorized(info_sender) == info_sender # config.owner

set_nft_address(info_sender, new_address) ==
    /\ IF Unauthorized(info_sender)
       THEN Err("set_nft_address", "Unauthorized")
       ELSE /\ nft_address' = new_address
            /\ UNCHANGED <<config, minters, listings>>
            /\ Ok("set_nft_address", "execute", new_address, <<>>)
    /\ UNCHANGED height

update_minters(info_sender, minter) ==
    /\ IF Unauthorized(info_sender)
       THEN Err("update_minters", "Unauthorized")
       ELSE /\ minters' = minters \cup {minter}
            /\ UNCHANGED <<config, nft_address, listings>>
            /\ Ok("update_minters", "execute", minter, <<>>)
    /\ UNCHANGED height

unregister_minter(info_sender, minter) ==
    /\ IF Unauthorized(info_sender)
       THEN Err("unregister_minter", "Unauthorized")
       ELSE /\ minters' = minters \ {minter}
            /\ UNCHANGED <<config, nft_address, listings>>
            /\ Ok("unregister_minter", "execute", minter, <<>>)
    /\ UNCHANGED height

(***************************************************************************)
(* Mint.                                                                   *)
(***************************************************************************)
RECURSIVE sum_total_rate(_)
sum_total_rate(royalties) ==
    IF royalties = <<>> THEN 0
    ELSE royalties[1].royalty_rate + sum_total_rate(Tail(royalties))

\* a bug InvalidRoyaltyRate could have: each rate is compared with one
InvalidRoyaltyRateEach(royalties) ==
    \E i \in 1..Len(royalties) : royalties[i].royalty_rate > DecimalFractional

\* the rates of the schedule sum to more than Decimal::one()
InvalidRoyaltyRate(royalties) == sum_total_rate(royalties) > DecimalFractional

\* the checks of a mint, in the order the handler makes them: the error the
\* mint fails with, or NoError.  The load of the registry address comes
\* before the royalties are summed.
MintError(info_sender, royalties) ==
    IF info_sender \notin minters
    THEN "Unauthorized"
    ELSE IF nft_address = NoAddr
    THEN "NotFound"
    ELSE IF InvalidRoyaltyRate(royalties)
    THEN "InvalidRoyaltyRate"
    ELSE NoError

execute_mint(info_sender, royalties) ==
    /\ IF MintError(info_sender, royalties) # NoError
       THEN Err("mint", MintError(info_sender, royalties))
       ELSE /\ config' = [config EXCEPT !.listing_count = @ + 1]
            /\ UNCHANGED <<nft_address, minters, listings>>
            /\ Ok("mint", "execute", "",
                  <<MintNftMsg(nft_address,
                               mint_token_id(config.listing_count + 1),
                               royalties)>>)
    /\ UNCHANGED height

(***************************************************************************)
(* Place.                                                                  *)
(***************************************************************************)
NewListing(id, minimum_bid, sender) ==
    [token_id |-> id,
     contract_addr |-> nft_address,
     seller |-> sender,
     max_bid |-> minimum_bid,
     max_bidder |-> Self,
     block_limit |-> height + config.max_aution_duration_blocks]

\* a bug PlaceMsgs could have: the transfer comes before the approval
PlaceMsgsTransferFirst(id) ==
    <<TransferNftMsg(nft_address, Self, id),
      ApproveMsg(nft_address, Self, id,
                 height + config.max_aution_duration_blocks)>>

\* the messages of a placement: the approval of the contract over the token
\* until the block limit, then the transfer of the token to the contract
PlaceMsgs(id) ==
    <<ApproveMsg(nft_address, Self, id,
                 height + config.max_aution_duration_blocks),
      TransferNftMsg(nft_address, Self, id)>>

execute_place_listing(via, id, minimum_bid, sender) ==
    /\ IF nft_address = NoAddr
       THEN Err("place", "NotFound")
       ELSE LET key == listing_key(config.listing_count)
            IN /\ listings' = Save(listings, key,
                                   NewListing(id, minimum_bid, sender))
               /\ UNCHANGED <<config, nft_address, minters>>
               /\ Ok("place", via, key, PlaceMsgs(id))
    /\ UNCHANGED height

(***************************************************************************)
(* Bid.                                                                    *)
(***************************************************************************)
\* a bug AuctionEnded could have: the block of the limit counts as after it
AuctionEndedAtLimit(listing) == listing.block_limit <= height

\* the auction of the listing is over at this height
AuctionEnded(listing) == listing.block_limit < height

\* a bug BidTooLow could have: the comparison reversed
BidTooLowReversed(bid_price, listing) ==
    bid_price.amount > listing.max_bid.amount

\* the bid is below the leading bid
BidTooLow(bid_price, listing) == bid_price.amount < listing.max_bid.amount

\* a bug AssetInfoMismatch could have: only the variants are compared
AssetInfoMismatchVariantOnly(bid_price, listing) ==
    bid_price.info.kind # listing.max_bid.info.kind

\* the currency of the bid is not the currency of the listing
AssetInfoMismatch(bid_price, listing) == bid_price.info # listing.max_bid.info

\* a bug WithLeader could have: the bid is updated and the bidder is not
WithLeaderBidOnly(listing, bid_price, sender) ==
    [listing EXCEPT !.max_bid = bid_price]

\* a bug WithLeader could have: a bid extends the auction
WithLeaderExtended(listing, bid_price, sender) ==
    [listing EXCEPT !.max_bidder = sender, !.max_bid = bid_price,
                    !.block_limit = height + config.max_aution_duration_blocks]

\* the listing with the new leader
WithLeader(listing, bid_price, sender) ==
    [listing EXCEPT !.max_bidder = sender, !.max_bid = bid_price]

\* a bug BidMsgs could have: the refund is emitted whoever the former bidder
BidMsgsAlwaysRefund(last_bid, last_bidder) ==
    <<into_msg(last_bid, last_bidder)>>

\* the messages of an accepted bid: the refund of the former bid, unless the
\* former bidder is the contract itself
BidMsgs(last_bid, last_bidder) ==
    IF Self # last_bidder THEN <<into_msg(last_bid, last_bidder)>> ELSE <<>>

\* the checks of a bid, in the order the handler makes them: the error the
\* bid fails with, or NoError
BidError(funds, listing_id, bid_price) ==
    IF ~assert_sent_native_token_balance(bid_price, funds)
    THEN "InsufficientFundsSend"
    ELSE IF listing_id \notin DOMAIN listings
    THEN "NotFound"
    ELSE IF AuctionEnded(listings[listing_id])
    THEN "AuctionEnded"
    ELSE IF AssetInfoMismatch(bid_price, listings[listing_id])
    THEN "AssetInfoMismatch"
    ELSE IF BidTooLow(bid_price, listings[listing_id])
    THEN "InsufficientFundsSend"
    ELSE NoError

execute_bid_listing(via, funds, listing_id, bid_price, sender) ==
    /\ IF BidError(funds, listing_id, bid_price) # NoError
       THEN Err("bid", BidError(funds, listing_id, bid_price))
       ELSE LET listing == listings[listing_id]
            IN /\ listings' = Save(listings, listing_id,
                                   WithLeader(listing, bid_price, sender))
               /\ UNCHANGED <<config, nft_address, minters>>
               /\ Ok("bid", via, listing_id,
                     BidMsgs(listing.max_bid, listing.max_bidder))
    /\ UNCHANGED height

(***************************************************************************)
(* Receive-token notification.                                             *)
(***************************************************************************)
receive_token(info_sender, wrapper) ==
    LET asset == [info |-> Token(info_sender), amount |-> wrapper.amount]
    IN  IF wrapper.msg.type = "bid_listing"
        THEN execute_bid_listing("receive", <<>>, wrapper.msg.id, asset,
                                 wrapper.sender)
        ELSE IF wrapper.msg.type = "place_listing"
        THEN execute_place_listing("receive", wrapper.msg.id, asset,
                                   wrapper.sender)
        ELSE Err("receive_token", "ParseErr") /\ UNCHANGED height

(***************************************************************************)
(* Withdraw.                                                               *)
(***************************************************************************)
\* the auction of the listing is still running at this height
AuctionNotEnded(listing) == listing.block_limit >= height

\* a bug RoyaltyLoop could have: the cut is paid and never subtracted
RECURSIVE RoyaltyLoopNoSub(_, _, _, _, _)
RoyaltyLoopNoSub(max_bid, royalties, i, remain_amount, msgs) ==
    IF i > Len(royalties)
    THEN [ok |-> TRUE, remain_amount |-> remain_amount, msgs |-> msgs]
    ELSE LET cut == MulDecimal(max_bid.amount, royalties[i].royalty_rate)
             pay == into_msg([info |-> max_bid.info, amount |-> cut],
                             royalties[i].address)
         IN  RoyaltyLoopNoSub(max_bid, royalties, i + 1, remain_amount,
                              Append(msgs, pay))

\* the royalty loop from entry i on: one payment per entry, each subtracted
\* from the remaining amount with checked_sub
RECURSIVE RoyaltyLoop(_, _, _, _, _)
RoyaltyLoop(max_bid, royalties, i, remain_amount, msgs) ==
    IF i > Len(royalties)
    THEN [ok |-> TRUE, remain_amount |-> remain_amount, msgs |-> msgs]
    ELSE LET cut == MulDecimal(max_bid.amount, royalties[i].royalty_rate)
             pay == into_msg([info |-> max_bid.info, amount |-> cut],
                             royalties[i].address)
         IN  IF cut > remain_amount
             THEN [ok |-> FALSE, remain_amount |-> remain_amount,
                   msgs |-> Append(msgs, pay)]
             ELSE RoyaltyLoop(max_bid, royalties, i + 1, remain_amount - cut,
                              Append(msgs, pay))

\* the settlement of a sold listing
Settle(max_bid, royalties) ==
    RoyaltyLoop(max_bid, royalties, 1, max_bid.amount, <<>>)

\* the token id named in the NFT transfer of a withdrawal
WithdrawTokenId(listing, listing_id) == listing_id

\* a bug SoldMsgs could have: the seller is paid before the royalties
SoldMsgsSellerFirst(listing, listing_id, settled) ==
    <<TransferNftMsg(listing.contract_addr, listing.max_bidder,
                     WithdrawTokenId(listing, listing_id))>>
    \o <<into_msg([info |-> listing.max_bid.info,
                   amount |-> settled.remain_amount], listing.seller)>>
    \o settled.msgs

\* the messages of the withdrawal of a sold listing
SoldMsgs(listing, listing_id, settled) ==
    <<TransferNftMsg(listing.contract_addr, listing.max_bidder,
                     WithdrawTokenId(listing, listing_id))>>
    \o settled.msgs
    \o <<into_msg([info |-> listing.max_bid.info,
                   amount |-> settled.remain_amount], listing.seller)>>

\* a bug UnsoldMsgs could have: the NFT goes to the leading bidder
UnsoldMsgsToBidder(listing, listing_id) ==
    <<TransferNftMsg(listing.contract_addr, listing.max_bidder,
                     WithdrawTokenId(listing, listing_id))>>

\* the messages of the withdrawal of a listing without a bid
UnsoldMsgs(listing, listing_id) ==
    <<TransferNftMsg(listing.contract_addr, listing.seller,
                     WithdrawTokenId(listing, listing_id))>>

\* a bug AfterWithdraw could have: the record is left in the registry
AfterWithdrawKept(listing_id) == listings

\* the listing registry after the removal of a withdrawal
AfterWithdraw(listing_id) == Remove(listings, listing_id)

\* the answers of the registry to the NftInfo query: it fails, or it carries
\* the royalty schedule of the token
NftInfoAnswers ==
    [ok : {TRUE}, royalties : Schedules] \cup [ok : {FALSE}, royalties : {<<>>}]

\* the checks of a withdrawal before it removes the listing: the error the
\* withdrawal fails with, or NoError
WithdrawError(listing_id) ==
    IF listing_id \notin DOMAIN listings
    THEN "NotFound"
    ELSE IF AuctionNotEnded(listings[listing_id])
    THEN "AuctionNotEnded"
    ELSE NoError

execute_withdraw_listing(listing_id) ==
    /\ IF WithdrawError(listing_id) # NoError
       THEN Err("withdraw", WithdrawError(listing_id))
       ELSE LET listing == listings[listing_id]
                removed == <<config, nft_address, minters,
                             AfterWithdraw(listing_id)>>
            IN IF Self # listing.max_bidder
               THEN IF nft_address = NoAddr
                    THEN Revert("withdraw", "NotFound", removed)
                    ELSE \E query \in NftInfoAnswers :
                         LET settled == Settle(listing.max_bid, query.royalties)
                         IN IF ~query.ok
                            THEN Revert("withdraw", "QueryError", removed)
                            ELSE IF ~settled.ok
                            THEN Revert("withdraw", "Overflow", removed)
                            ELSE /\ listings' = AfterWithdraw(listing_id)
                                 /\ UNCHANGED <<config, nft_address, minters>>
                                 /\ last' = Result("withdraw", "execute",
                                        listing_id, TRUE, "",
                                        SoldMsgs(listing, listing_id, settled),
                                        query.royalties)
               ELSE /\ listings' = AfterWithdraw(listing_id)
                    /\ UNCHANGED <<config, nft_address, minters>>
                    /\ Ok("withdraw", "execute", listing_id,
                          UnsoldMsgs(listing, listing_id))
    /\ UNCHANGED height

(***************************************************************************)
(* Queries.                                                                *)
(***************************************************************************)
ResolveListingResponse(listing) ==
    [token_id |-> listing.token_id, contract_addr |-> listing.contract_addr,
     seller |-> listing.seller, max_bid |-> listing.max_bid,
     max_bidder |-> listing.max_bidder, block_limit |-> listing.block_limit]

\* may_load, then unwrap: on a key without a record the unwrap of None
\* panics and the query aborts
query_list_resolver(id) ==
    /\ IF id \in DOMAIN listings
       THEN last' = [op |-> "resolve", via |-> "query", key |-> id,
                     ok |-> TRUE, err |-> NoError, msgs |-> <<>>,
                     royalties |-> <<>>,
                     response |-> ResolveListingResponse(listings[id])]
       ELSE last' = Result("resolve", "query", id, FALSE, "panic", <<>>, <<>>)
    /\ UNCHANGED <<store, height>>

(***************************************************************************)
(* The host: the messages of ExecuteMsg and QueryMsg, and the passing of   *)
(* blocks.                                                                 *)
(***************************************************************************)
HookMsgs ==
    [type : {"bid_listing"}, id : ListingIds]
    \cup [type : {"place_listing"}, id : TokenIds]
    \cup [type : {"invalid"}, id : {""}]

\* Cw20ReceiveMsg: sender is the account whose tokens were sent
Cw20ReceiveMsgs ==
    {w \in [sender : Users, amount : Amounts, msg : HookMsgs] :
        w.msg.type = "place_listing" => w.sender \in Sellers}

PlaceListing ==
    \E info_sender \in Sellers, id \in TokenIds, minimum_bid \in Assets :
        execute_place_listing("execute", id, minimum_bid, info_sender)

BidListing ==
    \E info_sender \in Senders, funds \in Funds, listing_id \in ListingIds,
       bid_price \in Assets :
        execute_bid_listing("execute", funds, listing_id, bid_price,
                            info_sender)

WithdrawListing ==
    \E listing_id \in ListingIds : execute_withdraw_listing(listing_id)

\* the mints explored: a mint that would succeed is sent while the counter
\* is below max_count
MintUpTo(max_count) ==
    \E info_sender \in Senders, royalties \in Schedules :
        /\ MintError(info_sender, royalties) = NoError
           => config.listing_count < max_count
        /\ execute_mint(info_sender, royalties)

Mint == MintUpTo(MaxMints)

UpdateMinter ==
    \E info_sender \in Senders, minter \in MinterCandidates :
        update_minters(info_sender, minter)

RemoveMinter ==
    \E info_sender \in Senders, minter \in MinterCandidates :
        unregister_minter(info_sender, minter)

ReceiveToken ==
    \E info_sender \in TokenContracts, wrapper \in Cw20ReceiveMsgs :
        receive_token(info_sender, wrapper)

SetNftAddress ==
    \E info_sender \in Senders, new_address \in NftAddrs :
        set_nft_address(info_sender, new_address)

ResolveListing ==
    \E id \in ListingIds : query_list_resolver(id)

\* env.block.height grows between invocations: by a whole auction duration,
\* and from then on block by block
AdvanceHeight ==
    \E d \in {1, DEFAULT_EXPIRE_BLOCKS} :
        /\ d = 1 => height > DEFAULT_EXPIRE_BLOCKS
        /\ height + d <= DEFAULT_EXPIRE_BLOCKS + MaxTick
        /\ height' = height + d
        /\ last' = Result("block", "", "", TRUE, "", <<>>, <<>>)
        /\ UNCHANGED store

Next ==
    \/ PlaceListing
    \/ BidListing
    \/ WithdrawListing
    \/ Mint
    \/ UpdateMinter
    \/ RemoveMinter
    \/ ReceiveToken
    \/ SetNftAddress
    \/ ResolveListing
    \/ AdvanceHeight

Spec == Init /\ [][Next]_vars

(***************************************************************************)
(* The auction alone: the messages that place, bid on and withdraw         *)
(* listings.  Without a mint config.listing_count stays 0: every placement *)
(* lands on the same key, and the registry holds one listing at a time.    *)
(***************************************************************************)
NextAuction ==
    \/ PlaceListing
    \/ BidListing
    \/ WithdrawListing
    \/ ReceiveToken
    \/ SetNftAddress
    \/ ResolveListing
    \/ AdvanceHeight

SpecAuction == Init /\ [][NextAuction]_vars

(***************************************************************************)
(* The issuing side: the owner's messages, the mints and the placements,   *)
(* which read the counter the mints advance.                               *)
(***************************************************************************)
NextMint ==
    \/ Mint
    \/ UpdateMinter
    \/ RemoveMinter
    \/ SetNftAddress
    \/ PlaceListing

SpecMint == Init /\ [][NextMint]_vars

(***************************************************************************)
(* The counter: a longer series of mints, on a contract without listings.  *)
(***************************************************************************)
\* number of successful mints of the series (the token ids reach two digits)
MaxSeries == 11

MintSeries == MintUpTo(MaxSeries)

NextCounter ==
    \/ MintSeries
    \/ UpdateMinter
    \/ RemoveMinter
    \/ SetNftAddress

SpecCounter == Init /\ [][NextCounter]_vars

(***************************************************************************)
(* The bid, statement by statement, and the dispatch of its refund.  While *)
(* a bid runs, last is its frame: the position pc in execute_bid_listing,  *)
(* the arguments, the local variables listing (the loaded record) and msg  *)
(* (the refund), and, once the refund is dispatched and its recipient bids *)
(* in turn, the leader that bid loaded.  The host runs a handler to its    *)
(* end before anything else, commits its writes when it returns Ok, and    *)
(* dispatches the messages of the response after that.                     *)
(***************************************************************************)
NoMsg == [type |-> "none"]

BidFrame(pc, key, sender, bid_price, listing, msg, msgs, observed) ==
    [op |-> "bid_frame", pc |-> pc, key |-> key, sender |-> sender,
     bid_price |-> bid_price, listing |-> listing, msg |-> msg,
     msgs |-> msgs, observed |-> observed]

\* no bid is running
Idle == last.op = "bid_frame" => last.pc = "done"

\* a bid is at position pc
At(pc) == last.op = "bid_frame" /\ last.pc = pc

\* the checks, with the load of the listing into the local variable
BidLoad ==
    /\ Idle
    /\ \E info_sender \in Senders, funds \in Funds, listing_id \in ListingIds,
          bid_price \in Assets :
          IF BidError(funds, listing_id, bid_price) # NoError
          THEN Err("bid", BidError(funds, listing_id, bid_price))
          ELSE /\ last' = BidFrame("loaded", listing_id, info_sender,
                                   bid_price, listings[listing_id], NoMsg,
                                   <<>>, <<>>)
               /\ UNCHANGED store
    /\ UNCHANGED height

\* let msg = last_bid.into_msg(last_bidder)
BidBuildRefund ==
    /\ At("loaded")
    /\ last' = [last EXCEPT !.pc = "built",
                            !.msg = into_msg(last.listing.max_bid,
                                             last.listing.max_bidder)]
    /\ UNCHANGED <<store, height>>

\* the update of the local listing and its save
BidSave ==
    /\ At("built")
    /\ listings' = Save(listings, last.key,
                        WithLeader(last.listing, last.bid_price, last.sender))
    /\ last' = [last EXCEPT !.pc = "saved"]
    /\ UNCHANGED <<config, nft_address, minters, height>>

\* the response: with the refund, unless the former bidder is the contract
BidReturn ==
    /\ At("saved")
    /\ last' = [last EXCEPT
                  !.msgs = IF Self # last.listing.max_bidder
                           THEN <<last.msg>> ELSE <<>>,
                  !.pc = IF Self # last.listing.max_bidder
                         THEN "returned" ELSE "done"]
    /\ UNCHANGED <<store, height>>

\* the host dispatches the refund and its recipient does not call back
RefundDelivered ==
    /\ At("returned")
    /\ last' = [last EXCEPT !.pc = "done"]
    /\ UNCHANGED <<store, height>>

\* the host dispatches the refund and its recipient bids on the listing
\* before the dispatch ends: observed is the leader this bid loads
ReentrantBid ==
    /\ At("returned")
    /\ \E funds \in Funds, bid_price \in Assets :
          LET e == BidError(funds, last.key, bid_price)
              loaded == listings[last.key]
          IN  /\ listings' =
                    IF e = NoError
                    THEN Save(listings, last.key,
                              WithLeader(loaded, bid_price, last.msg.to))
                    ELSE listings
              /\ last' = [last EXCEPT
                            !.pc = "done",
                            !.observed = <<[max_bid |-> loaded.max_bid,
                                            max_bidder |-> loaded.max_bidder]>>]
    /\ UNCHANGED <<config, nft_address, minters, height>>

\* the host starts a handler when none is running
SetNftAddressWhenIdle == Idle /\ SetNftAddress

PlaceListingWhenIdle == Idle /\ PlaceListing

NextReentry ==
    \/ SetNftAddressWhenIdle
    \/ PlaceListingWhenIdle
    \/ BidLoad
    \/ BidBuildRefund
    \/ BidSave
    \/ BidReturn
    \/ RefundDelivered
    \/ ReentrantBid

SpecReentry == Init /\ [][NextReentry]_vars

(***************************************************************************)
(* The currencies: placements and bids in two denominations and the tokens *)
(* of two token contracts, at the height of the instantiation.             *)
(***************************************************************************)
AllDenoms == {"uusd", "uluna"}
AllTokenContracts == {"cw20", "cw20b"}
AllAssetInfos ==
    {NativeToken(d) : d \in AllDenoms} \cup {Token(c) : c \in AllTokenContracts}
AllAssets == [info : AllAssetInfos, amount : Amounts]
AllFunds == {<<>>} \cup {<<c>> : c \in [denom : AllDenoms, amount : Amounts]}

PlaceListingAnyCurrency ==
    \E info_sender \in Sellers, id \in TokenIds, minimum_bid \in AllAssets :
        execute_place_listing("execute", id, minimum_bid, info_sender)

BidListingAnyCurrency ==
    \E info_sender \in Senders, funds \in AllFunds, listing_id \in ListingIds,
       bid_price \in AllAssets :
        execute_bid_listing("execute", funds, listing_id, bid_price,
                            info_sender)

ReceiveAnyToken ==
    \E info_sender \in AllTokenContracts, wrapper \in Cw20ReceiveMsgs :
        receive_token(info_sender, wrapper)

NextCurrency ==
    \/ PlaceListingAnyCurrency
    \/ BidListingAnyCurrency
    \/ ReceiveAnyToken
    \/ SetNftAddress

SpecCurrency == Init /\ [][NextCurrency]_vars

(***************************************************************************)
(* The settlement alone: Settle applied to a settlement amount and a       *)
(* royalty schedule drawn from wider sets than the registry answers with   *)
(* above.  last holds the input and, once applied, the result.             *)
(***************************************************************************)
\* largest settlement amount
MaxTotal == 7
SettleRates == 0..(DecimalFractional + 1)
SettleSchedules ==
    SeqsUpTo([address : RoyaltyAddrs, royalty_rate : SettleRates], MaxRoyalties)

InitSettle ==
    /\ config = [listing_count |-> 0, owner |-> Owner,
                 max_aution_duration_blocks |-> DEFAULT_EXPIRE_BLOCKS]
    /\ nft_address = NoAddr
    /\ minters = {}
    /\ listings = [k \in {} |-> 0]
    /\ height = 1
    /\ \E info \in AssetInfos, total \in 0..MaxTotal,
          royalties \in SettleSchedules :
            last = [op |-> "settle",
                    max_bid |-> [info |-> info, amount |-> total],
                    royalties |-> royalties,
                    done |-> FALSE,
                    result |-> [ok |-> FALSE, remain_amount |-> 0,
                                msgs |-> <<>>]]

ApplySettle ==
    /\ ~last.done
    /\ last' = [last EXCEPT !.done = TRUE,
                            !.result = Settle(last.max_bid, last.royalties)]
    /\ UNCHANGED <<store, height>>

SpecSettle == InitSettle /\ [][ApplySettle]_vars

(***************************************************************************)
(* Properties.                                                             *)
(***************************************************************************)
\* the step is a successful invocation of op
Succeeds(op) == last'.op = op /\ last'.ok

\* C1: a successful place creates its listing under a key that held no
\* record before the call: it never overwrites an existing listing.
C1_PlaceNeverOverwrites ==
    [][Succeeds("place") => last'.key \notin DOMAIN listings]_vars

\* C2: an accepted bid in a Token asset arrived through a receive-token
\* notification: a bid-listing message naming a Token asset is not accepted.
C2_TokenBidOnlyViaReceive ==
    (last.op = "bid" /\ last.ok
        /\ listings[last.key].max_bid.info.kind = "token")
    => last.via = "receive"

\* C3: the leading amount of a listing never decreases from its placement to
\* its withdrawal, so every accepted bid is at least the minimum bid of the
\* placement.  A placement starts a listing: the step that places under the
\* key starts the sequence.
C3_LeadingBidNonDecreasing ==
    [][\A k \in DOMAIN listings \cap DOMAIN listings' :
          ~(Succeeds("place") /\ last'.key = k)
          => listings'[k].max_bid.amount >= listings[k].max_bid.amount]_vars

\* a second bid was accepted on a listing, above the bid it replaced
C3_Witness ==
    /\ last.op = "bid" /\ last.ok
    /\ Len(last.msgs) = 1
    /\ last.msgs[1].amount < listings[last.key].max_bid.amount

\* C4: an accepted bid on a listing whose former leading bidder is not the
\* contract itself answers with exactly one message, the refund of the former
\* leading bid to the former leading bidder in its currency; when the former
\* leading bidder is the contract itself, it answers with no message.
C4_RefundFormerBidder ==
    [][Succeeds("bid") =>
          LET former == listings[last'.key]
              msgs == last'.msgs
          IN  IF former.max_bidder # Self
              THEN /\ Len(msgs) = 1
                   /\ msgs[1].type \in {"bank_send", "cw20_transfer"}
                   /\ msgs[1].to = former.max_bidder
                   /\ msgs[1].info = former.max_bid.info
                   /\ msgs[1].amount = former.max_bid.amount
              ELSE msgs = <<>>]_vars

\* a bidder outbid another one and the other one is refunded
C4_Witness ==
    /\ last.op = "bid" /\ last.ok
    /\ Len(last.msgs) = 1
    /\ last.msgs[1].to # listings[last.key].max_bidder
    /\ last.msgs[1].to # Self

\* the error of a bid that the funds check and then another check reject:
\* the funds check is the first the handler makes
FirstError(b, funds, funds_first, other) ==
    IF funds_first /\ ~assert_sent_native_token_balance(b, funds)
    THEN "InsufficientFundsSend" ELSE other

\* the checks of C5 on the listing under key k; funds_first tells whether a
\* bid above the expiry height may fail the funds check instead
ExpiryGates(k, funds_first) ==
    LET listing == listings[k]
    IN  /\ height <= listing.block_limit
           => WithdrawError(k) = "AuctionNotEnded"
        /\ \A funds \in Funds, b \in Assets :
              IF height <= listing.block_limit
              THEN (/\ assert_sent_native_token_balance(b, funds)
                    /\ b.info = listing.max_bid.info
                    /\ b.amount >= listing.max_bid.amount)
                   => BidError(funds, k, b) = NoError
              ELSE BidError(funds, k, b)
                     = FirstError(b, funds, funds_first, "AuctionEnded")

\* C5: for an existing listing, a withdrawal at a height up to the expiry
\* height fails AuctionNotEnded; a bid at a height up to the expiry height
\* (the expiry height included) that passes the funds, currency and amount
\* checks succeeds; a bid above the expiry height fails AuctionEnded.
C5_Original ==
    \A k \in DOMAIN listings : ExpiryGates(k, FALSE)

\* C5 as amended: the same, but a bid above the expiry height fails
\* AuctionEnded when it passes the funds check, which the handler makes first,
\* and fails that check otherwise.
C5_ExpiryGates ==
    \A k \in DOMAIN listings : ExpiryGates(k, TRUE)

\* a bid was accepted at the expiry height of its listing
C5_Witness ==
    /\ last.op = "bid" /\ last.ok
    /\ height = listings[last.key].block_limit

RECURSIVE SumAmounts(_)
SumAmounts(msgs) ==
    IF msgs = <<>> THEN 0 ELSE msgs[1].amount + SumAmounts(Tail(msgs))

\* cut is floor(total * rate), rate in atomics
IsFloor(cut, total, rate) ==
    /\ cut * DecimalFractional <= total * rate
    /\ total * rate < (cut + 1) * DecimalFractional

\* C6: for a settlement amount T and a royalty schedule whose rates sum to at
\* most 1.0, the settlement does not underflow, pays floor(T * rate) for each
\* entry, and the payments and the residual add up to T.
C6_SettlementExact ==
    (last.done /\ sum_total_rate(last.royalties) <= DecimalFractional)
    => LET r == last.result
           T == last.max_bid.amount
       IN  /\ r.ok
           /\ Len(r.msgs) = Len(last.royalties)
           /\ \A i \in 1..Len(r.msgs) :
                 IsFloor(r.msgs[i].amount, T, last.royalties[i].royalty_rate)
           /\ SumAmounts(r.msgs) + r.remain_amount = T

\* a settlement of two royalties whose cuts are truncated, with a residual
C6_Witness ==
    /\ last.done
    /\ sum_total_rate(last.royalties) <= DecimalFractional
    /\ Len(last.royalties) = 2
    /\ \A i \in 1..2 :
          (last.max_bid.amount * last.royalties[i].royalty_rate)
              % DecimalFractional # 0
    /\ last.result.remain_amount > 0

PayTypes == {"bank_send", "cw20_transfer"}

\* C7: the withdrawal of an expired listing led by a bidder answers with the
\* NFT transfer to the leading bidder, then one payment per royalty entry in
\* the order of the schedule, then the payment of the residual to the seller,
\* every payment in the currency of the listing: 2 + (royalty entries)
\* messages.
C7_SoldMessages ==
    [][(Succeeds("withdraw") /\ listings[last'.key].max_bidder # Self) =>
          LET listing == listings[last'.key]
              msgs == last'.msgs
              schedule == last'.royalties
              n == Len(schedule)
              T == listing.max_bid.amount
          IN  /\ listing.block_limit < height
              /\ Len(msgs) = n + 2
              /\ msgs[1].type = "transfer_nft"
              /\ msgs[1].contract_addr = listing.contract_addr
              /\ msgs[1].recipient = listing.max_bidder
              /\ \A i \in 1..n :
                    /\ msgs[i + 1].type \in PayTypes
                    /\ msgs[i + 1].to = schedule[i].address
                    /\ msgs[i + 1].info = listing.max_bid.info
                    /\ IsFloor(msgs[i + 1].amount, T, schedule[i].royalty_rate)
              /\ msgs[n + 2].type \in PayTypes
              /\ msgs[n + 2].to = listing.seller
              /\ msgs[n + 2].info = listing.max_bid.info
              /\ msgs[n + 2].amount + SumAmounts(SubSeq(msgs, 2, n + 1)) = T
      ]_vars

\* a sold listing was withdrawn with two royalty recipients
C7_Witness ==
    /\ last.op = "withdraw" /\ last.ok
    /\ Len(last.msgs) = 4
    /\ last.msgs[2].to # last.msgs[3].to
    /\ last.msgs[2].amount # last.msgs[3].amount

\* C8: the withdrawal of an expired listing that no bid was accepted on (the
\* leading bidder is still the contract itself) answers with one message, the
\* NFT transfer to the seller, and with no payment.
C8_UnsoldMessages ==
    [][(Succeeds("withdraw") /\ listings[last'.key].max_bidder = Self) =>
          LET listing == listings[last'.key]
              msgs == last'.msgs
          IN  /\ listing.block_limit < height
              /\ Len(msgs) = 1
              /\ msgs[1].type = "transfer_nft"
              /\ msgs[1].contract_addr = listing.contract_addr
              /\ msgs[1].recipient = listing.seller]_vars

\* a listing without a bid was withdrawn
C8_Witness ==
    /\ last.op = "withdraw" /\ last.ok
    /\ Len(last.msgs) = 1
    /\ last.msgs[1].recipient \in Sellers

\* C9: the NFT transfer of a withdrawal names the token id stored in the
\* listing record, the id given to place.
C9_WithdrawReleasesEscrowedToken ==
    [][Succeeds("withdraw") =>
          last'.msgs[1].token_id = listings[last'.key].token_id]_vars

\* a successful withdrawal removes the record of its key, and only a
\* placement creates a record
RemovedOnce ==
    /\ Succeeds("withdraw") => last'.key \notin DOMAIN listings'
    /\ \A k \in DOMAIN listings' \ DOMAIN listings :
          Succeeds("place") /\ last'.key = k

\* on the keys without a record among keys, every withdrawal fails NotFound
\* and so does every bid; funds_first tells whether a bid may fail the funds
\* check instead
GoneIsGone(keys, funds_first) ==
    \A k \in keys \ DOMAIN listings :
        /\ WithdrawError(k) = "NotFound"
        /\ \A funds \in Funds, b \in Assets :
              BidError(funds, k, b)
                = FirstError(b, funds, funds_first, "NotFound")

\* C10: a successful withdrawal removes the record of its key, and until a
\* placement creates a record under that key again every withdrawal and every
\* bid on it fails NotFound: the messages of a listing are emitted once.
C10_Original ==
    /\ []((last.op = "withdraw" /\ last.ok)
            => GoneIsGone({last.key}, FALSE))
    /\ [][RemovedOnce]_vars

\* C10 as amended: the same, but a bid on a key without a record fails
\* NotFound when it passes the funds check, which the handler makes before it
\* loads the listing, and fails that check otherwise.
C10_NoDoubleWithdraw ==
    /\ [](GoneIsGone(ListingIds, TRUE))
    /\ [][RemovedOnce]_vars

\* a withdrawal succeeded and its key holds no record
C10_Witness ==
    /\ last.op = "withdraw" /\ last.ok
    /\ last.key \notin DOMAIN listings

\* C11: a bid in a currency that is not the currency of the leading bid of
\* its listing (another variant, another denom, another token contract) is
\* rejected whatever its amount and its attached funds; an accepted bid leaves
\* the currency of the listing as it was, and a rejected bid leaves the
\* leading bid and the leading bidder of every listing as they were.
C11_MismatchRejected ==
    /\ [](\A k \in DOMAIN listings : \A funds \in AllFunds, b \in AllAssets :
            b.info # listings[k].max_bid.info
            => BidError(funds, k, b) # NoError)
    /\ [][Succeeds("bid") =>
            listings'[last'.key].max_bid.info
              = listings[last'.key].max_bid.info]_vars
    /\ [][(last'.op = "bid" /\ ~last'.ok) => listings' = listings]_vars

\* a bid was rejected for its currency on a listing in the second denom
C11_Witness ==
    /\ last.op = "bid" /\ ~last.ok
    /\ last.err = "AssetInfoMismatch"
    /\ \E k \in DOMAIN listings :
          listings[k].max_bid.info = NativeToken("uluna")

\* the checks of C12 on a mint request; registry_first tells whether a
\* request of a whitelisted sender may fail the load of the registry address
\* instead
MintGates(info_sender, royalties, registry_first) ==
    /\ info_sender \notin minters
       => MintError(info_sender, royalties) = "Unauthorized"
    /\ (info_sender \in minters
          /\ sum_total_rate(royalties) > DecimalFractional)
       => MintError(info_sender, royalties)
            = IF registry_first /\ nft_address = NoAddr
              THEN "NotFound" ELSE "InvalidRoyaltyRate"

\* C12: a mint request of a sender that is not on the minter whitelist fails
\* Unauthorized; a mint request of a whitelisted sender whose royalty rates
\* sum to more than 1.0 fails InvalidRoyaltyRate, also when no registry
\* address has been set.
C12_Original ==
    \A info_sender \in Senders, royalties \in Schedules :
        MintGates(info_sender, royalties, FALSE)

\* C12 as amended: the same, but a request of a whitelisted sender fails
\* InvalidRoyaltyRate when a registry address has been set, and fails the
\* load of the registry address (NotFound) when none has been set.
C12_MintGates ==
    \A info_sender \in Senders, royalties \in Schedules :
        MintGates(info_sender, royalties, TRUE)

\* a mint of a whitelisted sender was rejected for its royalty rates
C12_Witness ==
    /\ last.op = "mint" /\ ~last.ok
    /\ last.err = "InvalidRoyaltyRate"

\* C13: the query that resolves a listing, asked for a key without a record
\* (never placed, or withdrawn), answers with a NotFound failure: it does not
\* abort.
C13_ResolveMissingNotFound ==
    (last.op = "resolve" /\ last.key \notin DOMAIN listings)
    => (~last.ok /\ last.err = "NotFound")

\* C14: a successful placement answers with exactly two messages to the
\* configured NFT registry: first the approval of the contract over the token
\* of the listing, expiring at the height of the placement plus the
\* configured duration, then the transfer of that token to the contract.
\* With no registry address configured a placement fails, creates no listing
\* record and answers with no message.
C14_PlaceMessages ==
    [][last'.op = "place" =>
          IF nft_address = NoAddr
          THEN ~last'.ok /\ listings' = listings /\ last'.msgs = <<>>
          ELSE LET msgs == last'.msgs
                   listing == listings'[last'.key]
               IN  /\ last'.ok
                   /\ Len(msgs) = 2
                   /\ msgs[1].type = "approve"
                   /\ msgs[1].contract_addr = nft_address
                   /\ msgs[1].spender = Self
                   /\ msgs[1].token_id = listing.token_id
                   /\ msgs[1].expires
                        = height + config.max_aution_duration_blocks
                   /\ msgs[2].type = "transfer_nft"
                   /\ msgs[2].contract_addr = nft_address
                   /\ msgs[2].recipient = Self
                   /\ msgs[2].token_id = listing.token_id]_vars

\* a listing was placed after the first block, through a token notification
C14_Witness ==
    /\ last.op = "place" /\ last.ok
    /\ last.via = "receive"
    /\ height > 1
    /\ Len(last.msgs) = 2
    /\ last.msgs[1].expires = height + DEFAULT_EXPIRE_BLOCKS

AdminOps == {"set_nft_address", "update_minters", "unregister_minter"}

\* the effect of an owner's message: a failure is Unauthorized and writes
\* nothing; a success writes the registry address or the minter set, with
\* the address the message names (last.key), and nothing else
AdminEffects ==
    last'.op \in AdminOps =>
        IF ~last'.ok
        THEN last'.err = "Unauthorized" /\ store' = store /\ last'.msgs = <<>>
        ELSE /\ config' = config /\ listings' = listings
             /\ last'.msgs = <<>>
             /\ last'.op = "set_nft_address"
                => nft_address' = last'.key /\ minters' = minters
             /\ last'.op = "update_minters"
                => minters' = minters \cup {last'.key}
                   /\ nft_address' = nft_address
             /\ last'.op = "unregister_minter"
                => minters' = minters \ {last'.key}
                   /\ nft_address' = nft_address

\* C15: set_nft_address, update_minters and unregister_minter sent by anyone
\* but the owner recorded at the instantiation fail Unauthorized and leave the
\* registry address and the minter set as they were; sent by the owner they
\* make their one write (the registry address set, the minter added, the
\* minter removed) and change nothing else.
C15_AdminGated ==
    /\ [](/\ config.owner = Owner
          /\ \A s \in Senders : Unauthorized(s) <=> s # Owner)
    /\ [][AdminEffects]_vars

\* the owner put a minter on the whitelist of a contract that holds a listing
C15_Witness ==
    /\ last.op = "update_minters" /\ last.ok
    /\ last.key \in minters
    /\ DOMAIN listings # {}

\* the effect of a step on the counter: a successful mint adds one and names
\* the token "GF." followed by the new value; no other step changes it
CounterStep ==
    IF Succeeds("mint")
    THEN /\ config'.listing_count = config.listing_count + 1
         /\ Len(last'.msgs) = 1
         /\ last'.msgs[1].type = "mint"
         /\ last'.msgs[1].token_id
              = "GF." \o to_string(config'.listing_count)
    ELSE config' = config

\* C16: a successful mint adds exactly one to the persisted counter of the
\* Config and names its token by the fixed prefix and the new value of the
\* counter; a failed mint, and every other message, leaves the counter as it
\* was; so the ids of the tokens minted so far, those of the values 1 to the
\* counter, are pairwise distinct.
C16_MintCounter ==
    /\ [][CounterStep]_vars
    /\ [](\A a, b \in 1..config.listing_count :
            a # b => mint_token_id(a) # mint_token_id(b))

\* the mint of the token whose id has two digits
C16_Witness ==
    /\ last.op = "mint" /\ last.ok
    /\ config.listing_count = 10
    /\ last.msgs[1].token_id = "GF.10"

NewLeaderWritten ==
    /\ last.key \in DOMAIN listings
    /\ listings[last.key].max_bid = last.bid_price
    /\ listings[last.key].max_bidder = last.sender

\* a bid that runs as a consequence of the refund loaded the new leader
ReentrantSeesNewLeader ==
    (At("done") /\ last.observed # <<>>)
    => last.observed = <<[max_bid |-> last.bid_price,
                          max_bidder |-> last.sender]>>

KeyState(k, ls, h) ==
    IF k \notin DOMAIN ls THEN "Unlisted"
    ELSE IF h <= ls[k].block_limit THEN "Open"
    ELSE "Expired"

\* C19: a listing key moves from Unlisted to Open by a placement, from Open
\* to Expired when the height passes the block limit, and from Expired to
\* Unlisted by a withdrawal, and in no other way: a record is not removed
\* while Open, an Expired record does not become Open again, and only a
\* withdrawal removes a record.
C19_Lifecycle ==
    [][\A k \in ListingIds :
          LET a == KeyState(k, listings, height)
              b == KeyState(k, listings', height')
          IN  \/ a = b
              \/ /\ a = "Unlisted" /\ b = "Open"
                 /\ Succeeds("place") /\ last'.key = k
              \/ a = "Open" /\ b = "Expired" /\ height' > height
              \/ /\ a = "Expired" /\ b = "Unlisted"
                 /\ Succeeds("withdraw") /\ last'.key = k]_vars

\* the fields of a listing that no message changes
FixedFields(listing) ==
    [token_id |-> listing.token_id, contract_addr |-> listing.contract_addr,
     seller |-> listing.seller, block_limit |-> listing.block_limit]

\* C20: the block limit of a listing record is the height of its placement
\* plus the configured duration, and it, the token id, the registry address
\* and the seller stay as placed for as long as the record exists (a
\* placement under the key makes a new record); an accepted bid changes the
\* leading bid and bidder of its listing and nothing else: no other listing,
\* not the Config, the registry address or the minter set.
C20_BidFrame ==
    [][/\ Succeeds("place")
          => listings'[last'.key].block_limit
               = height + config.max_aution_duration_blocks
       /\ \A k \in DOMAIN listings \cap DOMAIN listings' :
             ~(Succeeds("place") /\ last'.key = k)
             => FixedFields(listings'[k]) = FixedFields(listings[k])
       /\ Succeeds("bid")
          => /\ DOMAIN listings' = DOMAIN listings
             /\ \A k \in DOMAIN listings \ {last'.key} :
                   listings'[k] = listings[k]
             /\ config' = config
             /\ nft_address' = nft_address
             /\ minters' = minters]_vars

\* a bid was accepted, after the block of the placement, on one of two
\* listings of a contract with a minter
C20_Witness ==
    /\ last.op = "bid" /\ last.ok
    /\ Cardinality(DOMAIN listings) = 2
    /\ minters # {}
    /\ height > 1

(***************************************************************************)
(* The auction with a height that keeps advancing through the explored     *)
(* blocks and with withdrawals that are sent again and again: a withdrawal *)
(* that can succeed infinitely often does succeed.                         *)
(***************************************************************************)
SpecLive ==
    /\ Init
    /\ [][NextAuction]_vars
    /\ WF_vars(AdvanceHeight)
    /\ SF_vars(WithdrawListing /\ Succeeds("withdraw"))

\* the last explored height
MaxHeight == DEFAULT_EXPIRE_BLOCKS + MaxTick

\* a listing past its block limit stays past it, with its withdrawal passing
\* its checks, until a withdrawal removes it
StaysWithdrawable ==
    \A k \in DOMAIN listings :
        (listings[k].block_limit < height
            /\ ~(Succeeds("withdraw") /\ last'.key = k))
        => /\ k \in DOMAIN listings'
           /\ listings'[k].block_limit < height'

\* the listing of key k was withdrawn and the transfer of the withdrawal
\* names a token that was placed
Settled(k) ==
    /\ last.op = "withdraw" /\ last.ok /\ last.key = k
    /\ k \notin DOMAIN listings
    /\ last.msgs[1].type = "transfer_nft"
    /\ last.msgs[1].token_id \in TokenIds

\* C21: every listing can be settled.  Past its block limit a listing stays
\* withdrawable until it is withdrawn: no bid and no other message opens it
\* again or extends it.  So with a height that keeps advancing and
\* withdrawals sent fairly, every listing (here: every listing whose block
\* limit is below the last explored height) is eventually removed by a
\* withdrawal that sends its NFT to the leading bidder or to the seller.
C21_EveryListingSettled ==
    /\ [][StaysWithdrawable]_vars
    /\ \A k \in ListingIds :
          (k \in DOMAIN listings /\ listings[k].block_limit < MaxHeight)
          ~> Settled(k)

====
